---- MODULE Spec2Model ----
(***************************************************************************)
(* Academic certificate ledger: the chain of blocks, the pending pool, the *)
(* authority registry and the sqlite tables of blockchain.py, with the     *)
(* orchestrator of certificate_issuer.py on top of them.                   *)
(*                                                                         *)
(* Python dicts are TLA+ functions over their keys; dict.get of a missing  *)
(* key is None.  sha256 over a canonical JSON text is the injective        *)
(* sha256(x) == <<"sha256", x>>: two digests are equal exactly when the    *)
(* serialised values are.  time.time() and datetime.now() read one clock,  *)
(* each reading later than the one before.  Every submitted dict is a      *)
(* fresh object, as at every call site of the repository.                  *)
(***************************************************************************)
EXTENDS Integers, Sequences, FiniteSets, TLC

VARIABLES
    chain,                  \* AcademicBlockchain.chain
    pending_certificates,   \* AcademicBlockchain.pending_certificates
    authorities,            \* AcademicBlockchain.authorities
    db_blocks,              \* table blocks, keyed by block_index
    db_certificates,        \* table certificates, keyed by cert_id
    db_authorities,         \* table authorities, keyed by authority_id
    wallets,                \* WalletManager.wallets, the entries under an authority id
    nkeys,                  \* the number of RSA key pairs generated so far
    clock,                  \* the last reading of the wall clock
    last,                   \* the last call: its name, arguments and result
    accepted,               \* history: every record a call appended to the pool
    threads,                \* the request threads: where each is in its call
    faults                  \* the number of storage faults so far

ledger_vars == <<chain, pending_certificates, authorities, db_blocks,
                 db_certificates, db_authorities>>

vars == <<chain, pending_certificates, authorities, db_blocks,
          db_certificates, db_authorities, wallets, nkeys, clock, last,
          accepted, threads, faults>>

---------------------------------------------------------------------------
(* Bounds of the model *)

MaxRecords == 2     \* records accepted into the pool over a run
MaxFaults == 1      \* storage faults over a run

---------------------------------------------------------------------------
(* Python values *)

None == "None"

EmptyDict == [k \in {} |-> None]

Put(d, k, v) == [x \in (DOMAIN d) \cup {k} |-> IF x = k THEN v ELSE d[x]]

Get(d, k) == IF k \in DOMAIN d THEN d[k] ELSE None

sha256(x) == <<"sha256", x>>

---------------------------------------------------------------------------
(* Block *)

calculate_hash(b) ==
    sha256([block_index |-> b.block_index,
            timestamp |-> b.timestamp,
            data |-> b.data,
            previous_hash |-> b.previous_hash,
            validator |-> b.validator])

Block_hash_before_validator(block_index, timestamp, data, previous_hash, validator) ==
    [block_index |-> block_index,
     timestamp |-> timestamp,
     data |-> data,
     previous_hash |-> previous_hash,
     validator |-> validator,
     hash |-> calculate_hash([block_index |-> block_index,
                              timestamp |-> timestamp,
                              data |-> data,
                              previous_hash |-> previous_hash,
                              validator |-> None])]

Block(block_index, timestamp, data, previous_hash, validator) ==
    LET b == [block_index |-> block_index,
              timestamp |-> timestamp,
              data |-> data,
              previous_hash |-> previous_hash,
              validator |-> validator]
    IN  [block_index |-> block_index,
         timestamp |-> timestamp,
         data |-> data,
         previous_hash |-> previous_hash,
         validator |-> validator,
         hash |-> calculate_hash(b)]

---------------------------------------------------------------------------
(* AcademicBlockchain.  L is the ledger object: its chain, pool, registry  *)
(* and the three tables of its database.                                   *)

save_block_to_db(L, block) ==
    [L EXCEPT !.db_blocks = Put(@, block.block_index, block)]

create_genesis_block(L, t1, t2) ==
    LET genesis_data == [type |-> "genesis",
                         message |-> "Academic Certificate Verification System Genesis Block",
                         created_by |-> "system",
                         timestamp |-> t1]
        genesis_block == Block(0, t2, genesis_data, "0", "system")
    IN  save_block_to_db([L EXCEPT !.chain = Append(@, genesis_block)], genesis_block)

save_certificate_to_db_keep_first(L, cert, block_index) ==
    LET cert_id == IF "cert_hash" \in DOMAIN cert THEN cert.cert_hash ELSE ""
        row == [cert_id |-> cert_id,
                student_name |-> Get(cert, "student_name"),
                student_id |-> Get(cert, "student_id"),
                degree |-> Get(cert, "degree"),
                institution |-> Get(cert, "institution"),
                issue_date |-> Get(cert, "issue_date"),
                cert_hash |-> Get(cert, "cert_hash"),
                block_index |-> block_index,
                status |-> "valid"]
    IN  IF cert_id \in DOMAIN L.db_certificates
        THEN L
        ELSE [L EXCEPT !.db_certificates = Put(@, cert_id, row)]

save_certificate_to_db(L, cert, block_index) ==
    LET cert_id == IF "cert_hash" \in DOMAIN cert THEN cert.cert_hash ELSE ""
        row == [cert_id |-> cert_id,
                student_name |-> Get(cert, "student_name"),
                student_id |-> Get(cert, "student_id"),
                degree |-> Get(cert, "degree"),
                institution |-> Get(cert, "institution"),
                issue_date |-> Get(cert, "issue_date"),
                cert_hash |-> Get(cert, "cert_hash"),
                block_index |-> block_index,
                status |-> "valid"]
    IN  [L EXCEPT !.db_certificates = Put(@, cert_id, row)]

add_authority_overwrite(L, authority_id, institution_name, public_key, t) ==
    LET authority == [institution_name |-> institution_name,
                      public_key |-> public_key,
                      status |-> "active",
                      registered_date |-> t]
    IN  [L |-> [L EXCEPT !.authorities = Put(@, authority_id, authority),
                         !.db_authorities = Put(@, authority_id, authority)],
         ret |-> TRUE]

add_authority_replace_registry(L, authority_id, institution_name, public_key, t) ==
    IF authority_id \in DOMAIN L.authorities
    THEN [L |-> L, ret |-> FALSE]
    ELSE LET authority == [institution_name |-> institution_name,
                           public_key |-> public_key,
                           status |-> "active",
                           registered_date |-> t]
         IN  [L |-> [L EXCEPT !.authorities = Put(EmptyDict, authority_id, authority),
                              !.db_authorities = Put(@, authority_id, authority)],
              ret |-> TRUE]

add_authority(L, authority_id, institution_name, public_key, t) ==
    IF authority_id \in DOMAIN L.authorities
    THEN [L |-> L, ret |-> FALSE]
    ELSE LET authority == [institution_name |-> institution_name,
                           public_key |-> public_key,
                           status |-> "active",
                           registered_date |-> t]
         IN  [L |-> [L EXCEPT !.authorities = Put(@, authority_id, authority),
                              !.db_authorities = Put(@, authority_id, authority)],
              ret |-> TRUE]

is_valid_authority(L, authority_id) ==
    /\ authority_id \in DOMAIN L.authorities
    /\ L.authorities[authority_id].status = "active"

cert_content(certificate_data) ==
    [student_name |-> Get(certificate_data, "student_name"),
     student_id |-> Get(certificate_data, "student_id"),
     degree |-> Get(certificate_data, "degree"),
     institution |-> Get(certificate_data, "institution"),
     issue_date |-> Get(certificate_data, "issue_date")]

stamp_certificate_keep_hash(certificate_data, validator_id, t) ==
    LET stamped == Put(Put(Put(certificate_data, "validator", validator_id),
                           "submission_time", t),
                       "type", "certificate")
    IN  IF "cert_hash" \in DOMAIN certificate_data
        THEN stamped
        ELSE Put(stamped, "cert_hash", sha256(cert_content(stamped)))

stamp_certificate(certificate_data, validator_id, t) ==
    LET stamped == Put(Put(Put(certificate_data, "validator", validator_id),
                           "submission_time", t),
                       "type", "certificate")
    IN  Put(stamped, "cert_hash", sha256(cert_content(stamped)))

add_certificate_ungated(L, certificate_data, validator_id, t) ==
    [L |-> [L EXCEPT !.pending = Append(@, stamp_certificate(certificate_data, validator_id, t))],
     ret |-> TRUE]

add_certificate(L, certificate_data, validator_id, t) ==
    IF ~is_valid_authority(L, validator_id)
    THEN [L |-> L, ret |-> FALSE]
    ELSE [L |-> [L EXCEPT !.pending = Append(@, stamp_certificate(certificate_data, validator_id, t))],
          ret |-> TRUE]

new_block_payload_link(L, validator_id, t) ==
    LET previous_block == L.chain[Len(L.chain)]
    IN  Block(previous_block.block_index + 1, t,
              [certificates |-> L.pending,
               mined_by |-> validator_id,
               transaction_count |-> Len(L.pending)],
              sha256(previous_block.data),
              validator_id)

new_block_index_from_length(L, validator_id, t) ==
    LET previous_block == L.chain[Len(L.chain)]
    IN  Block(Len(L.chain) + 1, t,
              [certificates |-> L.pending,
               mined_by |-> validator_id,
               transaction_count |-> Len(L.pending)],
              previous_block.hash,
              validator_id)

new_block_first_record(L, validator_id, t) ==
    LET previous_block == L.chain[Len(L.chain)]
    IN  Block(previous_block.block_index + 1, t,
              [certificates |-> SubSeq(L.pending, 1, 1),
               mined_by |-> validator_id,
               transaction_count |-> 1],
              previous_block.hash, validator_id)

new_block(L, validator_id, t) ==
    LET previous_block == IF Len(L.chain) > 0 THEN <<L.chain[Len(L.chain)]>> ELSE <<>>
        new_index == IF previous_block # <<>> THEN previous_block[1].block_index + 1 ELSE 0
        block_data == [certificates |-> L.pending,
                       mined_by |-> validator_id,
                       transaction_count |-> Len(L.pending)]
    IN  Block(new_index, t, block_data,
              IF previous_block # <<>> THEN previous_block[1].hash ELSE "0",
              validator_id)

RECURSIVE index_certificates(_, _, _, _)
index_certificates(L, certs, i, block_index) ==
    IF i > Len(certs) THEN L
    ELSE index_certificates(save_certificate_to_db(L, certs[i], block_index),
                            certs, i + 1, block_index)

seal_block(L, block) ==
    LET appended == [L EXCEPT !.chain = Append(@, block)]
        saved == save_block_to_db(appended, block)
    IN  index_certificates(saved, L.pending, 1, block.block_index)

clear_pool(L) == [L EXCEPT !.pending = <<>>]

seal_block_raises(L, block, failing_write) ==
    LET appended == [L EXCEPT !.chain = Append(@, block)]
    IN  IF failing_write = 0 THEN appended
        ELSE index_certificates(save_block_to_db(appended, block),
                                SubSeq(L.pending, 1, failing_write - 1),
                                1, block.block_index)

mine_pending_certificates_empty_pool(L, validator_id, t) ==
    IF ~is_valid_authority(L, validator_id) THEN [L |-> L, ret |-> <<>>]
    ELSE LET block == new_block(L, validator_id, t)
         IN  [L |-> clear_pool(seal_block(L, block)), ret |-> <<block>>]

mine_pending_certificates_keep_pool(L, validator_id, t) ==
    IF ~is_valid_authority(L, validator_id) THEN [L |-> L, ret |-> <<>>]
    ELSE IF L.pending = <<>> THEN [L |-> L, ret |-> <<>>]
    ELSE LET block == new_block(L, validator_id, t)
         IN  [L |-> seal_block(L, block), ret |-> <<block>>]

mine_pending_certificates(L, validator_id, t) ==
    IF ~is_valid_authority(L, validator_id) THEN [L |-> L, ret |-> <<>>]
    ELSE IF L.pending = <<>> THEN [L |-> L, ret |-> <<>>]
    ELSE LET block == new_block(L, validator_id, t)
         IN  [L |-> clear_pool(seal_block(L, block)), ret |-> <<block>>]

verify_certificate(L, cert_hash) ==
    LET hits == {k \in DOMAIN L.db_certificates : L.db_certificates[k].cert_hash = cert_hash}
    IN  IF hits # {}
        THEN <<Put(L.db_certificates[CHOOSE k \in hits : TRUE], "verified", TRUE)>>
        ELSE <<>>

mark_revoked_in_chain(L, cert_hash) ==
    [L EXCEPT
        !.db_certificates =
            [k \in DOMAIN @ |-> IF @[k].cert_hash = cert_hash
                                THEN [@[k] EXCEPT !.status = "revoked"]
                                ELSE @[k]],
        !.chain =
            [i \in DOMAIN @ |->
                IF "certificates" \in DOMAIN @[i].data
                THEN [@[i] EXCEPT !.data.certificates =
                        [j \in DOMAIN @ |->
                            IF @[j].type = "certificate" /\ @[j].cert_hash = cert_hash
                            THEN Put(@[j], "status", "revoked")
                            ELSE @[j]]]
                ELSE @[i]]]

mark_revoked_nothing(L, cert_hash) == L

mark_revoked(L, cert_hash) ==
    [L EXCEPT !.db_certificates =
        [k \in DOMAIN @ |-> IF @[k].cert_hash = cert_hash
                            THEN [@[k] EXCEPT !.status = "revoked"]
                            ELSE @[k]]]

revoke_certificate_no_seal(L, cert_hash, validator_id, reason, t1, t2) ==
    IF ~is_valid_authority(L, validator_id) THEN [L |-> L, ret |-> FALSE]
    ELSE LET revocation_data == [type |-> "revocation",
                                 cert_hash |-> cert_hash,
                                 revoked_by |-> validator_id,
                                 reason |-> reason,
                                 revocation_date |-> t1]
             submitted == [L EXCEPT !.pending = Append(@, revocation_data)]
         IN  [L |-> mark_revoked(submitted, cert_hash), ret |-> TRUE]

revoke_certificate(L, cert_hash, validator_id, reason, t1, t2) ==
    IF ~is_valid_authority(L, validator_id) THEN [L |-> L, ret |-> FALSE]
    ELSE LET revocation_data == [type |-> "revocation",
                                 cert_hash |-> cert_hash,
                                 revoked_by |-> validator_id,
                                 reason |-> reason,
                                 revocation_date |-> t1]
             submitted == [L EXCEPT !.pending = Append(@, revocation_data)]
             mined == mine_pending_certificates(submitted, validator_id, t2).L
         IN  [L |-> mark_revoked(mined, cert_hash), ret |-> TRUE]

RECURSIVE first_invalid_links_only(_, _)
first_invalid_links_only(L, i) ==
    IF i > Len(L.chain) THEN 0
    ELSE LET current_block == L.chain[i]
             previous_block == L.chain[i - 1]
         IN  IF current_block.previous_hash # previous_block.hash THEN i
             ELSE IF /\ current_block.validator # "system"
                     /\ ~is_valid_authority(L, current_block.validator) THEN i
             ELSE first_invalid_links_only(L, i + 1)

RECURSIVE first_invalid(_, _)
first_invalid(L, i) ==
    IF i > Len(L.chain) THEN 0
    ELSE LET current_block == L.chain[i]
             previous_block == L.chain[i - 1]
         IN  IF current_block.hash # calculate_hash(current_block) THEN i
             ELSE IF current_block.previous_hash # previous_block.hash THEN i
             ELSE IF /\ current_block.validator # "system"
                     /\ ~is_valid_authority(L, current_block.validator) THEN i
             ELSE first_invalid(L, i + 1)

is_chain_valid(L) == first_invalid(L, 2) = 0

-------------------------------------------------------------------------------------------------------------------------------------------------
(* AcademicWallet and WalletManager.  A key pair is named by its public    *)
(* key text; a signature binds the signer's key pair to the digest of the  *)
(* signed dict.                                                            *)

KeyNames == <<"rsa_key_1", "rsa_key_2", "rsa_key_3">>

sign_certificate(wallet, certificate_data) ==
    <<"pss", wallet.key, sha256(certificate_data)>>

Keys == {KeyNames[i] : i \in 1..Len(KeyNames)}

verify_signature_any_key(wallet, certificate_data, signature_hex, public_key_pem) ==
    IF Len(signature_hex) # 3 THEN FALSE
    ELSE signature_hex[3] = sha256(certificate_data)

verify_signature(wallet, certificate_data, signature_hex, public_key_pem) ==
    LET public_key == IF public_key_pem # None THEN public_key_pem ELSE wallet.key
    IN  IF public_key_pem # None /\ public_key_pem \notin Keys THEN FALSE
        ELSE IF public_key = None THEN FALSE
        ELSE IF Len(signature_hex) # 3 THEN FALSE
        ELSE /\ signature_hex[2] = public_key
             /\ signature_hex[3] = sha256(certificate_data)

create_signed_certificate(wallet, student_name, student_id, degree, institution, issue_date, t) ==
    LET certificate == [student_name |-> student_name,
                        student_id |-> student_id,
                        degree |-> degree,
                        institution |-> institution,
                        issue_date |-> issue_date,
                        issuer_wallet |-> wallet.wallet_id,
                        created_at |-> t]
    IN  Put(Put(certificate, "signature", sign_certificate(wallet, certificate)),
            "public_key", wallet.key)

get_wallet(W, wallet_id) ==
    IF wallet_id \in DOMAIN W THEN <<W[wallet_id]>> ELSE <<>>

Without(d, keys) == [k \in DOMAIN d \ keys |-> d[k]]

temp_wallet == [wallet_id |-> None, key |-> None]

validate_certificate_signature(certificate) ==
    IF "signature" \notin DOMAIN certificate \/ "public_key" \notin DOMAIN certificate
    THEN FALSE
    ELSE verify_signature(temp_wallet,
                          Without(certificate, {"signature", "public_key"}),
                          certificate.signature, certificate.public_key)

---------------------------------------------------------------------------
(* CertificateIssuer.  O is the issuer with its ledger and wallet manager. *)

required_fields == <<"student_name", "student_id", "degree", "institution", "issue_date">>

missing_field_error ==
    [student_name |-> "Missing required field: student_name",
     student_id |-> "Missing required field: student_id",
     degree |-> "Missing required field: degree",
     institution |-> "Missing required field: institution",
     issue_date |-> "Missing required field: issue_date"]

first_missing(student_data) ==
    LET i == CHOOSE j \in 1..Len(required_fields) :
                 /\ required_fields[j] \notin DOMAIN student_data
                 /\ \A k \in 1..(j - 1) : required_fields[k] \in DOMAIN student_data
    IN  required_fields[i]

generate_certificate_id(certificate) ==
    <<"md5", certificate.student_id, certificate.degree, certificate.issue_date>>

Failure(O, error) ==
    [O |-> O, ret |-> [success |-> FALSE, error |-> error]]

register_institution(O, institution_name, authority_id, t) ==
    IF get_wallet(O.wallets, authority_id) # <<>>
    THEN Failure(O, "Institution ID already exists")
    ELSE LET institution_wallet == [wallet_id |-> authority_id,
                                    key |-> KeyNames[O.nkeys + 1]]
             public_key == institution_wallet.key
             added == add_authority(O.L, authority_id, institution_name, public_key, t)
             stored == [O EXCEPT !.wallets = Put(@, authority_id, institution_wallet),
                                 !.nkeys = @ + 1,
                                 !.L = added.L]
         IN  IF added.ret
             THEN [O |-> stored,
                   ret |-> [success |-> TRUE,
                            authority_id |-> authority_id,
                            institution_name |-> institution_name,
                            wallet_id |-> institution_wallet.wallet_id,
                            public_key |-> public_key]]
             ELSE Failure(stored, "Failed to register authority")

issue_certificate_no_seal(O, authority_id, student_data, t1, t2, t3) ==
    IF ~is_valid_authority(O.L, authority_id)
    THEN Failure(O, "Institution not registered or inactive")
    ELSE IF get_wallet(O.wallets, authority_id) = <<>>
    THEN Failure(O, "Institution wallet not found. Please register institution again.")
    ELSE IF \E i \in 1..Len(required_fields) : required_fields[i] \notin DOMAIN student_data
    THEN Failure(O, missing_field_error[first_missing(student_data)])
    ELSE LET added == add_certificate(O.L, student_data, authority_id, t2)
             stamped == added.L.pending[Len(added.L.pending)]
         IN  [O |-> [O EXCEPT !.L = added.L],
              ret |-> [success |-> TRUE,
                       certificate |-> stamped,
                       certificate_hash |-> Get(stamped, "cert_hash"),
                       block_index |-> <<>>,
                       transaction_id |-> <<>>]]

issue_certificate(O, authority_id, student_data, t1, t2, t3) ==
    IF ~is_valid_authority(O.L, authority_id)
    THEN Failure(O, "Institution not registered or inactive")
    ELSE IF get_wallet(O.wallets, authority_id) = <<>>
    THEN Failure(O, "Institution wallet not found. Please register institution again.")
    ELSE IF \E i \in 1..Len(required_fields) : required_fields[i] \notin DOMAIN student_data
    THEN Failure(O, missing_field_error[first_missing(student_data)])
    ELSE LET institution_wallet == get_wallet(O.wallets, authority_id)[1]
             signed == create_signed_certificate(institution_wallet,
                           student_data.student_name, student_data.student_id,
                           student_data.degree, student_data.institution,
                           student_data.issue_date, t1)
             graded == Put(Put(signed, "grade",
                               IF "grade" \in DOMAIN student_data
                               THEN student_data.grade ELSE "Pass"),
                           "graduation_date",
                           IF "graduation_date" \in DOMAIN student_data
                           THEN student_data.graduation_date ELSE student_data.issue_date)
             certificate == Put(graded, "certificate_id", generate_certificate_id(graded))
             added == add_certificate(O.L, certificate, authority_id, t2)
         IN  IF added.ret
             THEN LET mined == mine_pending_certificates(added.L, authority_id, t3)
                      stamped == added.L.pending[Len(added.L.pending)]
                  IN  [O |-> [O EXCEPT !.L = mined.L],
                       ret |-> [success |-> TRUE,
                                certificate |-> stamped,
                                certificate_hash |-> Get(stamped, "cert_hash"),
                                block_index |-> IF mined.ret # <<>>
                                                THEN <<mined.ret[1].block_index>> ELSE <<>>,
                                transaction_id |-> IF mined.ret # <<>>
                                                   THEN <<mined.ret[1].hash>> ELSE <<>>]]
             ELSE Failure(O, "Failed to add certificate to blockchain")

verify_certificate_by_hash(O, cert_hash) ==
    LET found == verify_certificate(O.L, cert_hash)
    IN  IF found # <<>>
        THEN LET result == Put(found[1], "blockchain_verified", TRUE)
                 i == result.block_index
             IN  [success |-> TRUE,
                  certificate |->
                      IF i + 1 \in 1..Len(O.L.chain)
                      THEN Put(Put(Put(result, "block_hash", O.L.chain[i + 1].hash),
                                   "block_validator", O.L.chain[i + 1].validator),
                               "block_timestamp", O.L.chain[i + 1].timestamp)
                      ELSE Put(result, "block_verified", FALSE)]
        ELSE [success |-> FALSE, error |-> "Certificate not found or invalid"]

LowerCase ==
    [x \in {"Alice Johnson", "ALICE JOHNSON", "S1", "S2", "BS CS", "MIT",
            "Test Student", "Test Degree", "Test University"} |->
        CASE x = "Alice Johnson" -> "alice johnson"
          [] x = "ALICE JOHNSON" -> "alice johnson"
          [] x = "S1" -> "s1"
          [] x = "S2" -> "s2"
          [] x = "BS CS" -> "bs cs"
          [] x = "MIT" -> "mit"
          [] x = "Test Student" -> "test student"
          [] x = "Test Degree" -> "test degree"
          [] x = "Test University" -> "test university"]

lower(x) == IF x \in DOMAIN LowerCase THEN LowerCase[x] ELSE x

criteria_match(cert, search_criteria) ==
    \A key \in DOMAIN search_criteria :
        ~(key \in DOMAIN cert /\ lower(cert[key]) # lower(search_criteria[key]))

RECURSIVE search_records(_, _, _, _)
search_records(O, certs, j, search_criteria) ==
    IF j > Len(certs) THEN <<>>
    ELSE LET cert == certs[j]
             found == IF /\ Get(cert, "type") = "certificate"
                         /\ criteria_match(cert, search_criteria)
                         /\ "cert_hash" \in DOMAIN cert
                      THEN LET verification == verify_certificate_by_hash(O, cert.cert_hash)
                           IN  IF verification.success
                               THEN <<verification.certificate>> ELSE <<>>
                      ELSE <<>>
         IN  found \o search_records(O, certs, j + 1, search_criteria)

RECURSIVE search_blocks(_, _, _)
search_blocks(O, i, search_criteria) ==
    IF i > Len(O.L.chain) THEN <<>>
    ELSE (IF "certificates" \in DOMAIN O.L.chain[i].data
          THEN search_records(O, O.L.chain[i].data.certificates, 1, search_criteria)
          ELSE <<>>)
         \o search_blocks(O, i + 1, search_criteria)

search_certificates(O, search_criteria) == search_blocks(O, 1, search_criteria)

validate_certificate_integrity_signature_only(O, certificate) ==
    LET signature_valid == validate_certificate_signature(certificate)
        blockchain_valid == /\ "cert_hash" \in DOMAIN certificate
                            /\ verify_certificate(O.L, certificate.cert_hash) # <<>>
    IN  [success |-> TRUE,
         signature_valid |-> signature_valid,
         blockchain_valid |-> blockchain_valid,
         overall_valid |-> signature_valid,
         certificate_hash |-> Get(certificate, "cert_hash")]

validate_certificate_integrity(O, certificate) ==
    LET signature_valid == validate_certificate_signature(certificate)
        blockchain_valid == /\ "cert_hash" \in DOMAIN certificate
                            /\ verify_certificate(O.L, certificate.cert_hash) # <<>>
    IN  [success |-> TRUE,
         signature_valid |-> signature_valid,
         blockchain_valid |-> blockchain_valid,
         overall_valid |-> signature_valid /\ blockchain_valid,
         certificate_hash |-> Get(certificate, "cert_hash")]

RECURSIVE certificates_sealed_by(_, _, _)
certificates_sealed_by(L, authority_id, i) ==
    IF i > Len(L.chain) THEN <<>>
    ELSE (IF L.chain[i].validator = authority_id /\ "certificates" \in DOMAIN L.chain[i].data
          THEN SelectSeq(L.chain[i].data.certificates,
                         LAMBDA cert : Get(cert, "type") = "certificate")
          ELSE <<>>)
         \o certificates_sealed_by(L, authority_id, i + 1)

is_revoked(L, cert) ==
    /\ "cert_hash" \in DOMAIN cert
    /\ LET verification == verify_certificate(L, cert.cert_hash)
       IN  verification # <<>> /\ verification[1].status = "revoked"

recent_entry(cert) ==
    [student_name |-> Get(cert, "student_name"),
     degree |-> Get(cert, "degree"),
     issue_date |-> Get(cert, "issue_date"),
     cert_hash |-> Get(cert, "cert_hash")]

get_institution_statistics_any_block(O, authority_id) ==
    IF ~is_valid_authority(O.L, authority_id)
    THEN [success |-> FALSE, error |-> "Institution not registered"]
    ELSE LET RECURSIVE all_certificates(_)
             all_certificates(i) ==
                 IF i > Len(O.L.chain) THEN <<>>
                 ELSE (IF "certificates" \in DOMAIN O.L.chain[i].data
                       THEN SelectSeq(O.L.chain[i].data.certificates,
                                      LAMBDA cert : Get(cert, "type") = "certificate")
                       ELSE <<>>) \o all_certificates(i + 1)
             certs == all_certificates(1)
         IN  [success |-> TRUE,
              statistics |->
                 [authority_id |-> authority_id,
                  institution_name |-> O.L.authorities[authority_id].institution_name,
                  total_certificates |-> Len(certs),
                  revoked_certificates |->
                      Len(SelectSeq(certs, LAMBDA cert : is_revoked(O.L, cert))),
                  active_certificates |->
                      Len(SelectSeq(certs, LAMBDA cert : "cert_hash" \in DOMAIN cert
                                                         /\ ~is_revoked(O.L, cert))),
                  recent_certificates |->
                      [k \in 1..(IF Len(certs) < 10 THEN Len(certs) ELSE 10) |->
                          recent_entry(certs[k])]]]

get_institution_statistics(O, authority_id) ==
    IF ~is_valid_authority(O.L, authority_id)
    THEN [success |-> FALSE, error |-> "Institution not registered"]
    ELSE LET certs == certificates_sealed_by(O.L, authority_id, 1)
         IN  [success |-> TRUE,
              statistics |->
                 [authority_id |-> authority_id,
                  institution_name |-> O.L.authorities[authority_id].institution_name,
                  total_certificates |-> Len(certs),
                  revoked_certificates |->
                      Len(SelectSeq(certs, LAMBDA cert : is_revoked(O.L, cert))),
                  active_certificates |->
                      Len(SelectSeq(certs, LAMBDA cert : "cert_hash" \in DOMAIN cert
                                                         /\ ~is_revoked(O.L, cert))),
                  recent_certificates |->
                      [k \in 1..(IF Len(certs) < 10 THEN Len(certs) ELSE 10) |->
                          recent_entry(certs[k])]]]

RevokedBy(O, authority_id, cert_hash, reason, t1, t2, t3) ==
    LET revoked == revoke_certificate(O.L, cert_hash, authority_id, reason, t1, t2)
    IN  IF revoked.ret
        THEN [O |-> [O EXCEPT !.L = revoked.L],
              ret |-> [success |-> TRUE,
                       revoked_by |-> authority_id,
                       reason |-> reason,
                       revocation_date |-> t3]]
        ELSE Failure(O, "Failed to revoke certificate")

issuer_revoke_certificate_found(O, authority_id, cert_hash, reason, t1, t2, t3) ==
    IF ~is_valid_authority(O.L, authority_id)
    THEN Failure(O, "Institution not registered or inactive")
    ELSE LET verification == verify_certificate_by_hash(O, cert_hash)
         IN  IF verification.success /\ verification.certificate.status = "revoked"
             THEN Failure(O, "Certificate already revoked")
             ELSE RevokedBy(O, authority_id, cert_hash, reason, t1, t2, t3)

issuer_revoke_certificate_revoked_not_found(O, authority_id, cert_hash, reason, t1, t2, t3) ==
    IF ~is_valid_authority(O.L, authority_id)
    THEN Failure(O, "Institution not registered or inactive")
    ELSE LET verification == verify_certificate_by_hash(O, cert_hash)
         IN  IF ~verification.success \/ verification.certificate.status = "revoked"
             THEN Failure(O, "Certificate not found")
             ELSE RevokedBy(O, authority_id, cert_hash, reason, t1, t2, t3)

issuer_revoke_certificate_any_authority(O, authority_id, cert_hash, reason, t1, t2, t3) ==
    LET verification == verify_certificate_by_hash(O, cert_hash)
    IN  IF ~verification.success
        THEN Failure(O, "Certificate not found")
        ELSE IF verification.certificate.status = "revoked"
        THEN Failure(O, "Certificate already revoked")
        ELSE RevokedBy(O, authority_id, cert_hash, reason, t1, t2, t3)

issuer_revoke_certificate(O, authority_id, cert_hash, reason, t1, t2, t3) ==
    IF ~is_valid_authority(O.L, authority_id)
    THEN Failure(O, "Institution not registered or inactive")
    ELSE LET verification == verify_certificate_by_hash(O, cert_hash)
         IN  IF ~verification.success
             THEN Failure(O, "Certificate not found")
             ELSE IF verification.certificate.status = "revoked"
             THEN Failure(O, "Certificate already revoked")
             ELSE LET revoked == revoke_certificate(O.L, cert_hash, authority_id, reason, t1, t2)
                  IN  IF revoked.ret
                      THEN [O |-> [O EXCEPT !.L = revoked.L],
                            ret |-> [success |-> TRUE,
                                     revoked_by |-> authority_id,
                                     reason |-> reason,
                                     revocation_date |-> t3]]
                      ELSE Failure(O, "Failed to revoke certificate")

RECURSIVE count_records(_, _, _)
count_records(L, i, type) ==
    IF i > Len(L.chain) THEN 0
    ELSE (IF "certificates" \in DOMAIN L.chain[i].data
          THEN Len(SelectSeq(L.chain[i].data.certificates,
                             LAMBDA cert : Get(cert, "type") = type))
          ELSE 0)
         + count_records(L, i + 1, type)

get_latest_block(L) == IF Len(L.chain) > 0 THEN <<L.chain[Len(L.chain)]>> ELSE <<>>

get_chain_info_every_record(L) ==
    [total_blocks |-> Len(L.chain),
     total_certificates |-> count_records(L, 1, "certificate")
                            + count_records(L, 1, "revocation"),
     total_revocations |-> count_records(L, 1, "revocation"),
     total_authorities |-> Cardinality(DOMAIN L.authorities),
     chain_valid |-> is_chain_valid(L),
     latest_block_hash |-> IF Len(L.chain) > 0
                           THEN <<get_latest_block(L)[1].hash>> ELSE <<>>]

get_chain_info(L) ==
    [total_blocks |-> Len(L.chain),
     total_certificates |-> count_records(L, 1, "certificate"),
     total_revocations |-> count_records(L, 1, "revocation"),
     total_authorities |-> Cardinality(DOMAIN L.authorities),
     chain_valid |-> is_chain_valid(L),
     latest_block_hash |-> IF Len(L.chain) > 0
                           THEN <<get_latest_block(L)[1].hash>> ELSE <<>>]

---------------------------------------------------------------------------
(* The ledger and the issuer of the running program *)

Ledger ==
    [chain |-> chain,
     pending |-> pending_certificates,
     authorities |-> authorities,
     db_blocks |-> db_blocks,
     db_certificates |-> db_certificates,
     db_authorities |-> db_authorities]

Issuer == [L |-> Ledger, wallets |-> wallets, nkeys |-> nkeys]

Store(L) ==
    /\ chain' = L.chain
    /\ pending_certificates' = L.pending
    /\ authorities' = L.authorities
    /\ db_blocks' = L.db_blocks
    /\ db_certificates' = L.db_certificates
    /\ db_authorities' = L.db_authorities

StoreIssuer(O) ==
    /\ Store(O.L)
    /\ wallets' = O.wallets
    /\ nkeys' = O.nkeys

EmptyLedger ==
    [chain |-> <<>>,
     pending |-> <<>>,
     authorities |-> EmptyDict,
     db_blocks |-> EmptyDict,
     db_certificates |-> EmptyDict,
     db_authorities |-> EmptyDict]

FreshLedger == create_genesis_block(EmptyLedger, 0, 1)


FreshIssuer == [L |-> FreshLedger, wallets |-> EmptyDict, nkeys |-> 0]

---------------------------------------------------------------------------
(* Inputs *)

AuthorityIds == {"mit", "stanford"}

AuthorityInputs ==
    {<<"mit", "Massachusetts Institute of Technology", "mit_public_key">>,
     <<"mit", "MIT 2", "mit_key_2">>,
     <<"stanford", "Stanford University", "stanford_public_key">>}

InstitutionNames == [mit |-> "Massachusetts Institute of Technology",
                     stanford |-> "Stanford University"]

Alice ==
    [student_name |-> "Alice Johnson", student_id |-> "S1", degree |-> "BS CS",
     institution |-> "MIT", issue_date |-> "2024-06-15"]

NoStudentId ==
    [student_name |-> "Test Student", degree |-> "Test Degree",
     institution |-> "Test University", issue_date |-> "2024-01-01"]

CertificateInputs == {Alice, NoStudentId}

CertHashes == {sha256(cert_content(c)) : c \in CertificateInputs}

Reasons == {"test"}

Threads == {1, 2}

---------------------------------------------------------------------------
(* History *)

Room == Cardinality(accepted) < MaxRecords

BlockRecords(b) ==
    IF "certificates" \in DOMAIN b.data
    THEN {b.data.certificates[j] : j \in 1..Len(b.data.certificates)}
    ELSE {}

AllRecords(L) ==
    {L.pending[j] : j \in 1..Len(L.pending)}
    \cup UNION {BlockRecords(L.chain[i]) : i \in 1..Len(L.chain)}

Accept(L) == accepted' = accepted \cup (AllRecords(L) \ AllRecords(Ledger))

Idle == [pc |-> "idle"]

---------------------------------------------------------------------------
(* The program: one action per call, on the shared ledger and issuer *)

Init ==
    /\ chain = FreshLedger.chain
    /\ pending_certificates = FreshLedger.pending
    /\ authorities = FreshLedger.authorities
    /\ db_blocks = FreshLedger.db_blocks
    /\ db_certificates = FreshLedger.db_certificates
    /\ db_authorities = FreshLedger.db_authorities
    /\ wallets = EmptyDict
    /\ nkeys = 0
    /\ clock = 1
    /\ last = [op |-> "init"]
    /\ accepted = {}
    /\ threads = [th \in Threads |-> Idle]
    /\ faults = 0

AddAuthority ==
    \E a \in AuthorityInputs :
        LET r == add_authority(Ledger, a[1], a[2], a[3], clock + 1)
        IN  /\ Store(r.L)
            /\ clock' = IF r.ret THEN clock + 1 ELSE clock
            /\ last' = [op |-> "add_authority", authority_id |-> a[1],
                        institution_name |-> a[2], public_key |-> a[3], ret |-> r.ret]
            /\ UNCHANGED <<wallets, nkeys, accepted, threads, faults>>

AddCertificate ==
    \E c \in CertificateInputs, v \in AuthorityIds :
        LET r == add_certificate(Ledger, c, v, clock + 1)
        IN  /\ Room
            /\ Store(r.L)
            /\ Accept(r.L)
            /\ clock' = IF r.ret THEN clock + 1 ELSE clock
            /\ last' = [op |-> "add_certificate", certificate_data |-> c,
                        validator_id |-> v, ret |-> r.ret]
            /\ UNCHANGED <<wallets, nkeys, threads, faults>>

MinePendingCertificates ==
    \E v \in AuthorityIds :
        LET r == mine_pending_certificates(Ledger, v, clock + 1)
        IN  /\ Store(r.L)
            /\ clock' = IF r.ret # <<>> THEN clock + 1 ELSE clock
            /\ last' = [op |-> "mine_pending_certificates", validator_id |-> v,
                        ret |-> r.ret]
            /\ UNCHANGED <<wallets, nkeys, accepted, threads, faults>>

RevokeCertificate ==
    \E h \in CertHashes, v \in AuthorityIds, reason \in Reasons :
        LET r == revoke_certificate(Ledger, h, v, reason, clock + 1, clock + 2)
        IN  /\ Room
            /\ Store(r.L)
            /\ Accept(r.L)
            /\ clock' = IF r.ret THEN clock + 2 ELSE clock
            /\ last' = [op |-> "revoke_certificate", cert_hash |-> h,
                        validator_id |-> v, reason |-> reason, ret |-> r.ret]
            /\ UNCHANGED <<wallets, nkeys, threads, faults>>

Next ==
    \/ AddAuthority
    \/ AddCertificate
    \/ MinePendingCertificates
    \/ RevokeCertificate

Spec == Init /\ [][Next]_vars

---------------------------------------------------------------------------
(* The program driven through the CertificateIssuer, as the routes of      *)
(* app.py drive it                                                         *)

RegisterInstitution ==
    \E a \in AuthorityIds :
        LET r == register_institution(Issuer, InstitutionNames[a], a, clock + 1)
        IN  /\ StoreIssuer(r.O)
            /\ clock' = IF r.ret.success THEN clock + 1 ELSE clock
            /\ last' = [op |-> "register_institution", authority_id |-> a,
                        institution_name |-> InstitutionNames[a], ret |-> r.ret]
            /\ UNCHANGED <<accepted, threads, faults>>

IssueCertificate ==
    \E a \in AuthorityIds, s \in CertificateInputs :
        LET r == issue_certificate(Issuer, a, s, clock + 1, clock + 2, clock + 3)
        IN  /\ Room
            /\ StoreIssuer(r.O)
            /\ Accept(r.O.L)
            /\ clock' = IF r.ret.success THEN clock + 3 ELSE clock
            /\ last' = [op |-> "issue_certificate", authority_id |-> a,
                        student_data |-> s, ret |-> r.ret]
            /\ UNCHANGED <<threads, faults>>

IssuerRevokeCertificate ==
    \E a \in AuthorityIds, h \in CertHashes, reason \in Reasons :
        LET r == issuer_revoke_certificate(Issuer, a, h, reason,
                                           clock + 1, clock + 2, clock + 3)
        IN  /\ Room \/ ~r.ret.success
            /\ StoreIssuer(r.O)
            /\ Accept(r.O.L)
            /\ clock' = IF r.ret.success THEN clock + 3 ELSE clock
            /\ last' = [op |-> "issuer_revoke_certificate", authority_id |-> a,
                        cert_hash |-> h, reason |-> reason, ret |-> r.ret]
            /\ UNCHANGED <<threads, faults>>

IssuerNext ==
    \/ AddAuthority
    \/ RegisterInstitution
    \/ IssueCertificate
    \/ IssuerRevokeCertificate

IssuerSpec == Init /\ [][IssuerNext]_vars

\* The issuer on a ledger that also takes direct submissions, so that the
\* pool can hold records when the issuer is called.
IssuerLedgerNext ==
    \/ AddAuthority
    \/ AddCertificate
    \/ RegisterInstitution
    \/ IssueCertificate
    \/ IssuerRevokeCertificate

IssuerLedgerSpec == Init /\ [][IssuerLedgerNext]_vars

VerifyCertificateByHash ==
    \E h \in CertHashes :
        /\ last' = [op |-> "verify_certificate_by_hash", cert_hash |-> h,
                    ret |-> verify_certificate_by_hash(Issuer, h)]
        /\ UNCHANGED <<ledger_vars, wallets, nkeys, clock, accepted, threads, faults>>

---------------------------------------------------------------------------
(* The whole program: the ledger's own calls and the issuer's, as the      *)
(* routes and the tests make them on the same objects                      *)

SystemNext ==
    \/ AddAuthority
    \/ AddCertificate
    \/ MinePendingCertificates
    \/ RevokeCertificate
    \/ RegisterInstitution
    \/ IssueCertificate
    \/ IssuerRevokeCertificate
    \/ VerifyCertificateByHash

SystemSpec == Init /\ [][SystemNext]_vars

---------------------------------------------------------------------------
(* The ledger with storage faults: a write of mine_pending_certificates    *)
(* raises sqlite3.Error, which the caller catches; the call ends there.    *)
(* failing_write 0 is the block write, k > 0 the k-th certificate write.   *)

MineWriteFails ==
    \E v \in AuthorityIds, failing_write \in 0..Len(pending_certificates) :
        /\ faults < MaxFaults
        /\ is_valid_authority(Ledger, v)
        /\ pending_certificates # <<>>
        /\ Store(seal_block_raises(Ledger, new_block(Ledger, v, clock + 1), failing_write))
        /\ clock' = clock + 1
        /\ faults' = faults + 1
        /\ last' = [op |-> "mine_pending_certificates", validator_id |-> v,
                    ret |-> <<>>, raised |-> "sqlite3.Error",
                    failing_write |-> failing_write]
        /\ UNCHANGED <<wallets, nkeys, accepted, threads>>

FaultNext ==
    \/ AddAuthority
    \/ AddCertificate
    \/ MinePendingCertificates
    \/ RevokeCertificate
    \/ MineWriteFails

FaultSpec == Init /\ [][FaultNext]_vars

---------------------------------------------------------------------------
(* The ledger under the threaded server of app.py: two request threads on  *)
(* the one ledger object, no lock.  A thread may be switched out between   *)
(* building its block, appending and saving it, and clearing the pool.     *)

RegisteredIssuer ==
    register_institution(
        register_institution(FreshIssuer, InstitutionNames["mit"], "mit", 2).O,
        InstitutionNames["stanford"], "stanford", 3).O

ConcInit ==
    /\ chain = RegisteredIssuer.L.chain
    /\ pending_certificates = RegisteredIssuer.L.pending
    /\ authorities = RegisteredIssuer.L.authorities
    /\ db_blocks = RegisteredIssuer.L.db_blocks
    /\ db_certificates = RegisteredIssuer.L.db_certificates
    /\ db_authorities = RegisteredIssuer.L.db_authorities
    /\ wallets = RegisteredIssuer.wallets
    /\ nkeys = RegisteredIssuer.nkeys
    /\ clock = 3
    /\ last = [op |-> "init"]
    /\ accepted = {}
    /\ threads = [th \in Threads |-> Idle]
    /\ faults = 0

ThreadAddCertificate(th) ==
    \E c \in CertificateInputs, v \in AuthorityIds :
        LET r == add_certificate(Ledger, c, v, clock + 1)
        IN  /\ threads[th].pc = "idle"
            /\ Room
            /\ r.ret
            /\ Store(r.L)
            /\ Accept(r.L)
            /\ clock' = clock + 1
            /\ UNCHANGED <<wallets, nkeys, last, threads, faults>>

ThreadMineBuild(th) ==
    \E v \in AuthorityIds :
        /\ threads[th].pc = "idle"
        /\ is_valid_authority(Ledger, v)
        /\ pending_certificates # <<>>
        /\ threads' = [threads EXCEPT ![th] =
                          [pc |-> "append", caller |-> "mine_pending_certificates",
                           validator_id |-> v,
                           new_block |-> new_block(Ledger, v, clock + 1)]]
        /\ clock' = clock + 1
        /\ UNCHANGED <<ledger_vars, wallets, nkeys, last, accepted, faults>>

ThreadRevokeBuild(th) ==
    \E h \in CertHashes, v \in AuthorityIds, reason \in Reasons :
        LET revocation_data == [type |-> "revocation",
                                cert_hash |-> h,
                                revoked_by |-> v,
                                reason |-> reason,
                                revocation_date |-> clock + 1]
            submitted == [Ledger EXCEPT !.pending = Append(@, revocation_data)]
        IN  /\ threads[th].pc = "idle"
            /\ Room
            /\ is_valid_authority(Ledger, v)
            /\ Store(submitted)
            /\ Accept(submitted)
            /\ threads' = [threads EXCEPT ![th] =
                              [pc |-> "append", caller |-> "revoke_certificate",
                               validator_id |-> v, cert_hash |-> h,
                               new_block |-> new_block(submitted, v, clock + 2)]]
            /\ clock' = clock + 2
            /\ UNCHANGED <<wallets, nkeys, last, faults>>

ThreadMineAppend(th) ==
    /\ threads[th].pc = "append"
    /\ Store(seal_block(Ledger, threads[th].new_block))
    /\ threads' = [threads EXCEPT ![th].pc = "clear"]
    /\ UNCHANGED <<wallets, nkeys, clock, last, accepted, faults>>

ThreadMineClear(th) ==
    /\ threads[th].pc = "clear"
    /\ Store(clear_pool(Ledger))
    /\ threads' = [threads EXCEPT ![th] =
                      IF @.caller = "revoke_certificate"
                      THEN [@ EXCEPT !.pc = "update"]
                      ELSE Idle]
    /\ UNCHANGED <<wallets, nkeys, clock, last, accepted, faults>>

ThreadRevokeUpdate(th) ==
    /\ threads[th].pc = "update"
    /\ Store(mark_revoked(Ledger, threads[th].cert_hash))
    /\ threads' = [threads EXCEPT ![th] = Idle]
    /\ UNCHANGED <<wallets, nkeys, clock, last, accepted, faults>>

ConcNext ==
    \E th \in Threads :
        \/ ThreadAddCertificate(th)
        \/ ThreadMineBuild(th)
        \/ ThreadRevokeBuild(th)
        \/ ThreadMineAppend(th)
        \/ ThreadMineClear(th)
        \/ ThreadRevokeUpdate(th)

ConcSpec == ConcInit /\ [][ConcNext]_vars

---------------------------------------------------------------------------
(* Claims on the ledger, checked under Spec                                *)

\* C1: in every state reached by add_authority, add_certificate,
\* mine_pending_certificates and revoke_certificate calls, is_chain_valid
\* returns true.
C1_ChainAlwaysValid == is_chain_valid(Ledger)

C1_Witness ==
    /\ last.op = "revoke_certificate"
    /\ last.ret
    /\ Len(chain) = 3
    /\ is_chain_valid(Ledger)

\* C2: every block after the first stores the hash of the block before it
\* as previous_hash, and its stored hash is the hash of its own stored fields.
C2_LinkedAndHashed ==
    \A i \in 2..Len(chain) :
        /\ chain[i].previous_hash = chain[i - 1].hash
        /\ chain[i].hash = calculate_hash(chain[i])

C2_Witness ==
    /\ Len(chain) = 3
    /\ chain[3].previous_hash = chain[2].hash
    /\ chain[2].hash # chain[1].hash

\* C3: the chain is never empty, the block at position i has block_index i
\* (counting from 0), and block 0 is the genesis block with previous_hash "0"
\* and validator "system".
C3_IndicesAndGenesis ==
    /\ Len(chain) >= 1
    /\ \A i \in 1..Len(chain) : chain[i].block_index = i - 1
    /\ chain[1].data.type = "genesis"
    /\ chain[1].previous_hash = "0"
    /\ chain[1].validator = "system"

C3_Witness ==
    /\ Len(chain) = 3
    /\ chain[3].block_index = 2

\* C4: the chain is append-only: every call leaves the chain it found as a
\* prefix of the chain it leaves, each existing block unchanged.
C4_AppendOnly ==
    [][/\ Len(chain') >= Len(chain)
       /\ \A i \in 1..Len(chain) : chain'[i] = chain[i]]_vars

C4_Witness ==
    /\ last.op = "revoke_certificate"
    /\ last.ret
    /\ Len(chain) = 3
    /\ \E j \in 1..Len(chain[2].data.certificates) :
          /\ chain[2].data.certificates[j].type = "certificate"
          /\ chain[2].data.certificates[j].cert_hash = last.cert_hash
    /\ db_certificates[last.cert_hash].status = "revoked"

\* C8: add_certificate appends exactly one certificate record to the end of
\* the pool and returns true when the authority is active; otherwise it
\* returns false and leaves the pool as it was.  It never touches the chain
\* or the certificate index.
C8_AddCertificate ==
    [][last'.op = "add_certificate" =>
        /\ chain' = chain
        /\ db_certificates' = db_certificates
        /\ db_blocks' = db_blocks
        /\ IF is_valid_authority(Ledger, last'.validator_id)
           THEN /\ last'.ret
                /\ Len(pending_certificates') = Len(pending_certificates) + 1
                /\ SubSeq(pending_certificates', 1, Len(pending_certificates))
                        = pending_certificates
                /\ LET rec == pending_certificates'[Len(pending_certificates')]
                   IN  /\ rec.type = "certificate"
                       /\ rec.validator = last'.validator_id
                       /\ \A k \in DOMAIN last'.certificate_data :
                              rec[k] = last'.certificate_data[k]
           ELSE /\ ~last'.ret
                /\ pending_certificates' = pending_certificates]_vars

C8_Witness ==
    /\ last.op = "add_certificate"
    /\ last.ret
    /\ Len(pending_certificates) = 2
    /\ pending_certificates[2].validator = last.validator_id
    /\ pending_certificates[1].validator # last.validator_id

\* C9: mine_pending_certificates called with an authority that is not
\* active, or with an empty pool, returns None and changes nothing.
C9_MineNoOp ==
    [][/\ last'.op = "mine_pending_certificates"
       /\ \/ ~is_valid_authority(Ledger, last'.validator_id)
          \/ pending_certificates = <<>>
       => /\ last'.ret = <<>>
          /\ UNCHANGED ledger_vars]_vars

C9_Witness ==
    /\ last.op = "mine_pending_certificates"
    /\ last.ret = <<>>
    /\ ~is_valid_authority(Ledger, last.validator_id)
    /\ pending_certificates # <<>>

\* C10: mine_pending_certificates called by an active authority with a
\* non-empty pool appends one block whose payload lists the records of the
\* pool in order, counts them, and names the sealing authority as mined_by
\* and as validator; the pool is empty afterwards.
C10_MineSeals ==
    [][/\ last'.op = "mine_pending_certificates"
       /\ is_valid_authority(Ledger, last'.validator_id)
       /\ pending_certificates # <<>>
       => /\ Len(chain') = Len(chain) + 1
          /\ SubSeq(chain', 1, Len(chain)) = chain
          /\ LET block == chain'[Len(chain')]
             IN  /\ block.data.certificates = pending_certificates
                 /\ block.data.transaction_count = Len(pending_certificates)
                 /\ block.data.mined_by = last'.validator_id
                 /\ block.validator = last'.validator_id
                 /\ last'.ret = <<block>>
          /\ pending_certificates' = <<>>]_vars

C10_Witness ==
    /\ last.op = "mine_pending_certificates"
    /\ last.ret # <<>>
    /\ last.ret[1].data.transaction_count = 2
    /\ last.ret[1].data.certificates[1].validator # last.validator_id
    /\ pending_certificates = <<>>

---------------------------------------------------------------------------
(* Claims on concurrent callers, checked under ConcSpec                    *)

\* C5: under every interleaving of concurrent calls no two blocks get the
\* same block_index, every block's previous_hash is the stored hash of the
\* block before it, and is_chain_valid stays true.
C5_SerializedSeals ==
    /\ \A i, j \in 1..Len(chain) :
          i # j => chain[i].block_index # chain[j].block_index
    /\ \A i \in 2..Len(chain) : chain[i].previous_hash = chain[i - 1].hash
    /\ is_chain_valid(Ledger)

Copies(r) ==
    Cardinality({j \in 1..Len(pending_certificates) : pending_certificates[j] = r})
    + Cardinality({p \in (1..Len(chain)) \X (1..MaxRecords) :
                      /\ "certificates" \in DOMAIN chain[p[1]].data
                      /\ p[2] <= Len(chain[p[1]].data.certificates)
                      /\ chain[p[1]].data.certificates[p[2]] = r})

AllIdle == \A th \in Threads : threads[th].pc = "idle"

\* C6: under every interleaving no accepted record is lost or sealed twice:
\* once every call has returned, each accepted record is in the pool or in
\* exactly one block.
C6_NoRecordLostOrSealedTwice ==
    AllIdle => \A r \in accepted : Copies(r) = 1

---------------------------------------------------------------------------
(* Claims on storage faults, checked under FaultSpec                       *)

\* C7: when a durable write of mine_pending_certificates fails, the chain,
\* the pool and the certificate index are as they were before the call, and
\* every block of the in-memory chain is in the store.
C7_SealAllOrNothing ==
    []["raised" \in DOMAIN last' =>
        /\ chain' = chain
        /\ pending_certificates' = pending_certificates
        /\ db_certificates' = db_certificates
        /\ \A i \in 1..Len(chain') :
              /\ chain'[i].block_index \in DOMAIN db_blocks'
              /\ db_blocks'[chain'[i].block_index] = chain'[i]]_vars

---------------------------------------------------------------------------
(* Claims on the records of the pool and of the index, checked under Spec  *)

\* C11: in sequential operation every record accepted by add_certificate or
\* revoke_certificate is, unchanged, either in the pool or in the payload of
\* exactly one block, never in both and never in two blocks.
C11_ConsumedExactlyOnce ==
    \A r \in accepted : Copies(r) = 1

C11_Witness ==
    /\ Cardinality(accepted) = 2
    /\ Len(chain) = 2
    /\ Len(pending_certificates) = 1
    /\ \A r \in accepted : Copies(r) = 1

SealedAsCertificate(b, h) ==
    \E r \in BlockRecords(b) : r.type = "certificate" /\ r.cert_hash = h

IndexedFields(row) == [row EXCEPT !.status = "valid"]

\* C12: a seal writes the index only for certificate-kind records: a hash
\* that the new block holds only in a revocation-kind record gets no new
\* index entry, and its existing entry keeps its student fields and its
\* containing block index.
C12_IndexOnlyForCertificates ==
    [][\A h \in DOMAIN db_certificates' :
          (/\ Len(chain') = Len(chain) + 1
           /\ ~SealedAsCertificate(chain'[Len(chain')], h))
          => /\ h \in DOMAIN db_certificates
             /\ IndexedFields(db_certificates'[h]) = IndexedFields(db_certificates[h])]_vars

\* C13: the content hashes found by verify_certificate are exactly the
\* content hashes of the certificate-kind records of the sealed blocks.
C13_IndexIsSealedCertificates ==
    \A h \in CertHashes :
        (verify_certificate(Ledger, h) # <<>>)
            <=> \E i \in 1..Len(chain) : SealedAsCertificate(chain[i], h)

\* C14: every block that holds a revocation-kind record holds that one
\* record and no other.
C14_OneRevocationPerBlock ==
    \A i \in 1..Len(chain) :
        (\E r \in BlockRecords(chain[i]) : r.type = "revocation")
            => Len(chain[i].data.certificates) = 1

---------------------------------------------------------------------------
(* Claims on the issuer, checked under IssuerLedgerSpec                    *)

\* C15: revoke of a certificate indexed with status valid succeeds for every
\* active authority, the issuing one or another; it appends exactly one
\* block, and afterwards verification of the hash succeeds with status
\* "revoked".
C15_RevokeValidCertificate ==
    [][/\ last'.op = "issuer_revoke_certificate"
       /\ is_valid_authority(Ledger, last'.authority_id)
       /\ last'.cert_hash \in DOMAIN db_certificates
       /\ db_certificates[last'.cert_hash].status = "valid"
       => /\ last'.ret.success
          /\ Len(chain') = Len(chain) + 1
          /\ SubSeq(chain', 1, Len(chain)) = chain
          /\ LET v == verify_certificate_by_hash(Issuer', last'.cert_hash)
             IN  v.success /\ v.certificate.status = "revoked"]_vars

C15_Witness ==
    /\ last.op = "issuer_revoke_certificate"
    /\ last.ret.success
    /\ db_certificates[last.cert_hash].status = "revoked"
    /\ \E i \in 1..Len(chain) : \E r \in BlockRecords(chain[i]) :
          /\ r.type = "certificate"
          /\ r.cert_hash = last.cert_hash
          /\ r.validator # last.authority_id
          /\ chain[i].validator # last.authority_id

\* C16: revoke by an active authority of a content hash that is not in the
\* index returns the not-found error and leaves the chain, the pool and the
\* index as they were.
C16_RevokeNotFound ==
    [][/\ last'.op = "issuer_revoke_certificate"
       /\ is_valid_authority(Ledger, last'.authority_id)
       /\ last'.cert_hash \notin DOMAIN db_certificates
       => /\ last'.ret = [success |-> FALSE, error |-> "Certificate not found"]
          /\ UNCHANGED ledger_vars]_vars

C16_Witness ==
    /\ last.op = "issuer_revoke_certificate"
    /\ last.ret = [success |-> FALSE, error |-> "Certificate not found"]
    /\ is_valid_authority(Ledger, last.authority_id)
    /\ \E j \in 1..Len(pending_certificates) :
          pending_certificates[j].cert_hash = last.cert_hash

RevocationBlocks(c, h) ==
    {i \in 1..Len(c) : \E r \in BlockRecords(c[i]) :
                          r.type = "revocation" /\ r.cert_hash = h}

CertificateBlocks(c, h) ==
    {i \in 1..Len(c) : SealedAsCertificate(c[i], h)}

\* C17: revoke of a certificate whose index status is already revoked
\* returns the already-revoked error and appends no block, so that repeated
\* revoke calls add no revocation block beyond the first: the chain never
\* holds more revocation blocks for a hash than blocks that sealed it as a
\* certificate.
C17_RevokeAlreadyRevoked ==
    [][/\ (/\ last'.op = "issuer_revoke_certificate"
           /\ is_valid_authority(Ledger, last'.authority_id)
           /\ last'.cert_hash \in DOMAIN db_certificates
           /\ db_certificates[last'.cert_hash].status = "revoked")
          => /\ last'.ret = [success |-> FALSE, error |-> "Certificate already revoked"]
             /\ UNCHANGED ledger_vars
       /\ \A h \in CertHashes :
             Cardinality(RevocationBlocks(chain', h))
                 <= Cardinality(CertificateBlocks(chain', h))]_vars

C17_Witness ==
    /\ last.op = "issuer_revoke_certificate"
    /\ last.ret = [success |-> FALSE, error |-> "Certificate already revoked"]
    /\ Cardinality(RevocationBlocks(chain, last.cert_hash)) = 1
    /\ Len(chain) = 3

\* C18: a successful issue_certificate grows the chain by one block, returns
\* that block's index and stored hash as block_index and transaction_id, the
\* block holds the issued certificate, and verification of the returned
\* certificate_hash then succeeds with status "valid" and the five submitted
\* student fields.
C18_IssueSeals ==
    [][/\ last'.op = "issue_certificate"
       /\ last'.ret.success
       => /\ Len(chain') = Len(chain) + 1
          /\ SubSeq(chain', 1, Len(chain)) = chain
          /\ LET block == chain'[Len(chain')]
                 ret == last'.ret
                 v == verify_certificate_by_hash(Issuer', ret.certificate_hash)
             IN  /\ ret.block_index = <<block.block_index>>
                 /\ ret.transaction_id = <<block.hash>>
                 /\ ret.certificate \in BlockRecords(block)
                 /\ v.success
                 /\ v.certificate.status = "valid"
                 /\ \A i \in 1..Len(required_fields) :
                        v.certificate[required_fields[i]]
                            = last'.student_data[required_fields[i]]]_vars

C18_Witness ==
    /\ last.op = "issue_certificate"
    /\ last.ret.success
    /\ Len(chain) = 2
    /\ chain[2].data.transaction_count = 2
    /\ last.ret.block_index = <<1>>
    /\ db_certificates[last.ret.certificate_hash].status = "valid"

MissingFields(student_data) ==
    {i \in 1..Len(required_fields) : required_fields[i] \notin DOMAIN student_data}

\* C19: issue_certificate checks the five required fields before anything
\* else: whenever one is missing, whatever the authority and its wallet, it
\* returns the validation error naming the missing field and changes
\* neither the pool, the chain nor the index.
C19_RequiredFieldsFirst ==
    [][/\ last'.op = "issue_certificate"
       /\ MissingFields(last'.student_data) # {}
       => /\ \E i \in MissingFields(last'.student_data) :
                last'.ret = [success |-> FALSE,
                             error |-> missing_field_error[required_fields[i]]]
          /\ UNCHANGED ledger_vars]_vars

AuthorityError ==
    [success |-> FALSE, error |-> "Institution not registered or inactive"]

\* C20: issue_certificate and revoke called with an authority that is
\* unknown or not active return the failure carrying the authority error,
\* never success, and leave the chain, the pool, the registry and the index
\* as they were; the ledger's own revoke_certificate returns false likewise.
C20_AuthorityGate ==
    [][/\ (/\ last'.op \in {"issue_certificate", "issuer_revoke_certificate"}
           /\ ~is_valid_authority(Ledger, last'.authority_id))
          => /\ last'.ret = AuthorityError
             /\ UNCHANGED ledger_vars
       /\ \A v \in AuthorityIds, h \in CertHashes, reason \in Reasons :
             ~is_valid_authority(Ledger', v)
                 => revoke_certificate(Ledger', h, v, reason, clock' + 1, clock' + 2)
                        = [L |-> Ledger', ret |-> FALSE]]_vars

C20_Witness ==
    /\ last.op = "issuer_revoke_certificate"
    /\ last.ret = AuthorityError
    /\ ~is_valid_authority(Ledger, last.authority_id)
    /\ last.cert_hash \in DOMAIN db_certificates
    /\ db_certificates[last.cert_hash].status = "valid"

---------------------------------------------------------------------------
(* Calls on the wallets: a registered institution's wallet signs a dict,
   and a wallet verifies a dict against a signature, with a given public key
   or with its own *)

TestCert ==
    [student_name |-> "Test Student", degree |-> "Test Degree",
     issue_date |-> "2024-01-01"]

TamperedCert == [TestCert EXCEPT !.student_name = "Tampered Name"]

WalletRecords == {TestCert, TamperedCert, Alice}

MalformedSignatures == {<<"not hex">>}

PublicKeyInputs == Keys \cup {None, "mit_public_key"}

SignCertificate ==
    \E w \in DOMAIN wallets, c \in WalletRecords :
        /\ last' = [op |-> "sign_certificate", wallet_id |-> w,
                    certificate_data |-> c,
                    ret |-> sign_certificate(wallets[w], c)]
        /\ UNCHANGED <<ledger_vars, wallets, nkeys, clock, accepted, threads, faults>>

VerifySignature ==
    \E w \in DOMAIN wallets, c \in WalletRecords, pk \in PublicKeyInputs :
        \E s \in MalformedSignatures
                  \cup (IF last.op = "sign_certificate" THEN {last.ret} ELSE {}) :
            /\ last' = [op |-> "verify_signature", wallet_id |-> w,
                        certificate_data |-> c, signature_hex |-> s,
                        public_key_pem |-> pk,
                        signed |-> IF s \in MalformedSignatures THEN <<>>
                                   ELSE <<[wallet_id |-> last.wallet_id,
                                           certificate_data |-> last.certificate_data]>>,
                        ret |-> verify_signature(wallets[w], c, s, pk)]
            /\ UNCHANGED <<ledger_vars, wallets, nkeys, clock, accepted, threads, faults>>

WalletNext ==
    \/ AddAuthority
    \/ RegisterInstitution
    \/ SignCertificate
    \/ VerifySignature

WalletSpec == Init /\ [][WalletNext]_vars

---------------------------------------------------------------------------
(* Reading calls on the issuer: the integrity check of a certificate
   payload and the search.  The payloads are the sealed records, a freshly
   signed certificate that was never submitted, and a dict that carries a
   cert_hash and is signed, by a registered institution's wallet, with the
   cert_hash among the signed fields. *)

signed_with_hash(wallet, cert_hash) ==
    LET body == Put(Alice, "cert_hash", cert_hash)
    IN  Put(Put(body, "signature", sign_certificate(wallet, body)),
            "public_key", wallet.key)

Mallory ==
    [student_name |-> "Mallory", student_id |-> "S9", degree |-> "PhD",
     institution |-> "MIT", issue_date |-> "2024-06-15"]

own_wallet == [wallet_id |-> "mallory", key |-> KeyNames[3]]

forged_certificate(wallet, content, cert_hash) ==
    LET body == Put(content, "cert_hash", cert_hash)
    IN  Put(Put(body, "signature", sign_certificate(wallet, body)),
            "public_key", wallet.key)

CertificatePayloads ==
    UNION {BlockRecords(chain[i]) : i \in 1..Len(chain)}
    \cup {signed_with_hash(wallets[w], h) : w \in DOMAIN wallets, h \in CertHashes}
    \cup {forged_certificate(own_wallet, Mallory, h) : h \in CertHashes}
    \cup {create_signed_certificate(wallets[w], Alice.student_name, Alice.student_id,
                                     Alice.degree, Alice.institution, Alice.issue_date,
                                     clock) : w \in DOMAIN wallets}

SearchCriteria ==
    {[student_name |-> "alice johnson"],
     [student_id |-> "s1"],
     [student_name |-> "ALICE JOHNSON", degree |-> "bs cs"],
     [institution |-> "Test University"],
     [student_id |-> "S2"]}

ValidateCertificateIntegrity ==
    \E certificate \in CertificatePayloads :
        /\ last' = [op |-> "validate_certificate_integrity",
                    certificate |-> certificate,
                    ret |-> validate_certificate_integrity(Issuer, certificate)]
        /\ UNCHANGED <<ledger_vars, wallets, nkeys, clock, accepted, threads, faults>>

SearchCertificates ==
    \E search_criteria \in SearchCriteria :
        /\ last' = [op |-> "search_certificates",
                    search_criteria |-> search_criteria,
                    ret |-> search_certificates(Issuer, search_criteria)]
        /\ UNCHANGED <<ledger_vars, wallets, nkeys, clock, accepted, threads, faults>>

ReadNext ==
    \/ AddAuthority
    \/ AddCertificate
    \/ RegisterInstitution
    \/ IssueCertificate
    \/ IssuerRevokeCertificate
    \/ ValidateCertificateIntegrity
    \/ SearchCertificates

ReadSpec == Init /\ [][ReadNext]_vars

---------------------------------------------------------------------------
(* Concurrent issue_certificate calls: request threads of the web server on
   the one issuer, no lock.  A thread may be switched out between its
   add_certificate call and its mine_pending_certificates call. *)

issue_certificate_signed(O, authority_id, student_data, t1) ==
    LET institution_wallet == get_wallet(O.wallets, authority_id)[1]
        signed == create_signed_certificate(institution_wallet,
                      student_data.student_name, student_data.student_id,
                      student_data.degree, student_data.institution,
                      student_data.issue_date, t1)
        graded == Put(Put(signed, "grade",
                          IF "grade" \in DOMAIN student_data
                          THEN student_data.grade ELSE "Pass"),
                      "graduation_date",
                      IF "graduation_date" \in DOMAIN student_data
                      THEN student_data.graduation_date ELSE student_data.issue_date)
    IN  Put(graded, "certificate_id", generate_certificate_id(graded))

Bob ==
    [student_name |-> "Bob Smith", student_id |-> "S2", degree |-> "MS EE",
     institution |-> "Stanford", issue_date |-> "2024-06-15"]

IssueInputs == {Alice, Bob}

ThreadIssueSubmit(th) ==
    \E a \in AuthorityIds, s \in IssueInputs :
        LET certificate == issue_certificate_signed(Issuer, a, s, clock + 1)
            r == add_certificate(Ledger, certificate, a, clock + 2)
        IN  /\ threads[th].pc = "idle"
            /\ Room
            /\ is_valid_authority(Ledger, a)
            /\ get_wallet(wallets, a) # <<>>
            /\ r.ret
            /\ Store(r.L)
            /\ Accept(r.L)
            /\ threads' = [threads EXCEPT ![th] =
                              [pc |-> "submitted", caller |-> "issue_certificate",
                               authority_id |-> a, student_data |-> s,
                               certificate |-> r.L.pending[Len(r.L.pending)]]]
            /\ clock' = clock + 2
            /\ UNCHANGED <<wallets, nkeys, last, faults>>

ThreadIssueMine(th) ==
    LET mined == mine_pending_certificates(Ledger, threads[th].authority_id, clock + 1)
    IN  /\ threads[th].pc = "submitted"
        /\ Store(mined.L)
        /\ threads' = [threads EXCEPT ![th] = Idle]
        /\ clock' = IF mined.ret # <<>> THEN clock + 1 ELSE clock
        /\ last' = [op |-> "issue_certificate", thread |-> th,
                    authority_id |-> threads[th].authority_id,
                    student_data |-> threads[th].student_data,
                    ret |-> [success |-> TRUE,
                             certificate |-> threads[th].certificate,
                             certificate_hash |-> Get(threads[th].certificate, "cert_hash"),
                             block_index |-> IF mined.ret # <<>>
                                             THEN <<mined.ret[1].block_index>> ELSE <<>>,
                             transaction_id |-> IF mined.ret # <<>>
                                                THEN <<mined.ret[1].hash>> ELSE <<>>]]
        /\ UNCHANGED <<wallets, nkeys, accepted, faults>>

ConcIssueNext ==
    \E th \in Threads :
        \/ ThreadIssueSubmit(th)
        \/ ThreadIssueMine(th)

ConcIssueSpec == ConcInit /\ [][ConcIssueNext]_vars

---------------------------------------------------------------------------
(* Construction of a ledger object over an existing database.  A row of the
   blocks table is held as the six column values, the data column as the
   payload its JSON text decodes to: the payload holds only dictionaries
   with string keys, lists, strings, numbers and null, which json.dumps and
   json.loads map onto themselves. *)

RECURSIVE rows_by_block_index(_, _)
rows_by_block_index(db_rows, keys) ==
    IF keys = {} THEN <<>>
    ELSE LET k == CHOOSE k \in keys : \A j \in keys : k <= j
         IN  <<db_rows[k]>> \o rows_by_block_index(db_rows, keys \ {k})

block_from_row(row) ==
    [block_index |-> row.block_index,
     timestamp |-> row.timestamp,
     data |-> row.data,
     previous_hash |-> row.previous_hash,
     validator |-> row.validator,
     hash |-> row.hash]

load_from_database(L) ==
    LET rows == rows_by_block_index(L.db_blocks, DOMAIN L.db_blocks)
    IN  [L EXCEPT !.chain = [i \in 1..Len(rows) |-> block_from_row(rows[i])],
                  !.authorities =
                      [a \in DOMAIN L.db_authorities |->
                          [institution_name |-> L.db_authorities[a].institution_name,
                           public_key |-> L.db_authorities[a].public_key,
                           status |-> L.db_authorities[a].status,
                           registered_date |-> L.db_authorities[a].registered_date]]]

AcademicBlockchain_always_genesis(L, t1, t2) ==
    create_genesis_block(
        load_from_database([L EXCEPT !.chain = <<>>,
                                     !.pending = <<>>,
                                     !.authorities = EmptyDict]), t1, t2)

AcademicBlockchain(L, t1, t2) ==
    LET loaded == load_from_database([L EXCEPT !.chain = <<>>,
                                               !.pending = <<>>,
                                               !.authorities = EmptyDict])
    IN  IF Len(loaded.chain) = 0
        THEN create_genesis_block(loaded, t1, t2)
        ELSE loaded

Restart ==
    LET R == AcademicBlockchain(Ledger, clock + 1, clock + 2)
    IN  /\ Store(R)
        /\ last' = [op |-> "restart"]
        /\ UNCHANGED <<wallets, nkeys, clock, accepted, threads, faults>>

RestartNext ==
    \/ AddAuthority
    \/ AddCertificate
    \/ MinePendingCertificates
    \/ RevokeCertificate
    \/ Restart

RestartSpec == Init /\ [][RestartNext]_vars

---------------------------------------------------------------------------
(* The statistics of an institution.  The program starts on an empty
   database or on the database of an earlier run in which one institution
   submitted the same certificate eleven times and sealed the pool. *)

RECURSIVE add_certificates(_, _, _, _, _)
add_certificates(L, certificate_data, validator_id, n, t) ==
    IF n = 0 THEN L
    ELSE add_certificates(add_certificate(L, certificate_data, validator_id, t).L,
                          certificate_data, validator_id, n - 1, t + 1)

EarlierRun ==
    LET registered == add_authority(FreshLedger, "mit", InstitutionNames["mit"],
                                    "mit_public_key", 2).L
        submitted == add_certificates(registered, Alice, "mit", 11, 3)
    IN  AcademicBlockchain(mine_pending_certificates(submitted, "mit", 14).L, 15, 16)

StatsInit ==
    \E L \in {FreshLedger, EarlierRun} :
        /\ chain = L.chain
        /\ pending_certificates = L.pending
        /\ authorities = L.authorities
        /\ db_blocks = L.db_blocks
        /\ db_certificates = L.db_certificates
        /\ db_authorities = L.db_authorities
        /\ wallets = EmptyDict
        /\ nkeys = 0
        /\ clock = IF Len(L.chain) = 1 THEN 1 ELSE 14
        /\ last = [op |-> "init"]
        /\ accepted = {}
        /\ threads = [th \in Threads |-> Idle]
        /\ faults = 0

GetInstitutionStatistics ==
    \E a \in AuthorityIds :
        /\ last' = [op |-> "get_institution_statistics", authority_id |-> a,
                    ret |-> get_institution_statistics(Issuer, a)]
        /\ UNCHANGED <<ledger_vars, wallets, nkeys, clock, accepted, threads, faults>>

StatsNext ==
    \/ AddAuthority
    \/ AddCertificate
    \/ RegisterInstitution
    \/ IssueCertificate
    \/ IssuerRevokeCertificate
    \/ GetInstitutionStatistics

StatsSpec == StatsInit /\ [][StatsNext]_vars

---------------------------------------------------------------------------
(* Submissions whose record already carries a cert_hash, that of another
   certificate *)

WithHashInputs ==
    {Put(Alice, "cert_hash", sha256(cert_content(NoStudentId))),
     Put(NoStudentId, "cert_hash", sha256(cert_content(Alice)))}

AddCertificateWithHash ==
    \E c \in WithHashInputs, v \in AuthorityIds :
        LET r == add_certificate(Ledger, c, v, clock + 1)
        IN  /\ Room
            /\ Store(r.L)
            /\ Accept(r.L)
            /\ clock' = IF r.ret THEN clock + 1 ELSE clock
            /\ last' = [op |-> "add_certificate", certificate_data |-> c,
                        validator_id |-> v, ret |-> r.ret]
            /\ UNCHANGED <<wallets, nkeys, threads, faults>>

WithHashNext ==
    \/ AddAuthority
    \/ AddCertificate
    \/ AddCertificateWithHash
    \/ MinePendingCertificates
    \/ RevokeCertificate

WithHashSpec == Init /\ [][WithHashNext]_vars

---------------------------------------------------------------------------
(* A caller that holds the ledger object rewrites the payload of one block
   of the in-memory chain, the stored hash left as it is, and validates *)

tampered_data(data) ==
    IF "mined_by" \in DOMAIN data
    THEN [data EXCEPT !.mined_by = "mallory"]
    ELSE [data EXCEPT !.message = "tampered"]

tamper_block(L, i) ==
    [L EXCEPT !.chain[i].data = tampered_data(@)]

TamperBlock ==
    \E i \in 1..Len(chain) :
        LET T == tamper_block(Ledger, i)
        IN  /\ is_chain_valid(Ledger)
            /\ Store(T)
            /\ last' = [op |-> "tamper", position |-> chain[i].block_index,
                        ret |-> is_chain_valid(T)]
            /\ UNCHANGED <<wallets, nkeys, clock, accepted, threads, faults>>

TamperNext ==
    \/ AddAuthority
    \/ AddCertificate
    \/ MinePendingCertificates
    \/ RevokeCertificate
    \/ TamperBlock

TamperSpec == Init /\ [][TamperNext]_vars

---------------------------------------------------------------------------
(* The same caller also replaces the stored hash of the rewritten block with
   the hash recomputed over its changed fields *)

tamper_block_rehash(L, i) ==
    LET changed == tamper_block(L, i).chain[i]
    IN  [L EXCEPT !.chain[i] = [changed EXCEPT !.hash = calculate_hash(changed)]]

TamperBlockRehash ==
    \E i \in 1..Len(chain) :
        LET T == tamper_block_rehash(Ledger, i)
        IN  /\ is_chain_valid(Ledger)
            /\ T.chain[i].data # chain[i].data
            /\ Store(T)
            /\ last' = [op |-> "tamper_rehash", position |-> chain[i].block_index,
                        ret |-> is_chain_valid(T)]
            /\ UNCHANGED <<wallets, nkeys, clock, accepted, threads, faults>>

RehashNext ==
    \/ AddAuthority
    \/ AddCertificate
    \/ MinePendingCertificates
    \/ RevokeCertificate
    \/ TamperBlockRehash

RehashSpec == Init /\ [][RehashNext]_vars

---------------------------------------------------------------------------
(* Claims on the authority registry                                        *)

\* C21: add_authority with an authority_id that is already registered
\* returns false and changes nothing; with a new authority_id it returns
\* true, registers the given name and key as active, and leaves the rest of
\* the registry, the chain and the pool as they were.
C21_AddAuthority ==
    [][last'.op = "add_authority" =>
        IF last'.authority_id \in DOMAIN authorities
        THEN /\ last'.ret = FALSE
             /\ UNCHANGED ledger_vars
        ELSE /\ last'.ret = TRUE
             /\ is_valid_authority(Ledger', last'.authority_id)
             /\ authorities'[last'.authority_id].institution_name = last'.institution_name
             /\ authorities'[last'.authority_id].public_key = last'.public_key
             /\ \A a \in DOMAIN authorities : authorities'[a] = authorities[a]
             /\ DOMAIN authorities' = DOMAIN authorities \cup {last'.authority_id}
             /\ UNCHANGED <<chain, pending_certificates, db_blocks, db_certificates>>]_vars

C21_Witness ==
    /\ last.op = "add_authority"
    /\ last.ret = FALSE
    /\ authorities[last.authority_id].institution_name # last.institution_name
    /\ authorities[last.authority_id].public_key # last.public_key
    /\ Cardinality(DOMAIN authorities) = 2

\* C22: the registry only grows: an authority that is registered stays
\* registered in every later state, with the same institution name and
\* public key, and stays active.
C22_RegistryOnlyGrows ==
    [][\A a \in DOMAIN authorities :
          /\ a \in DOMAIN authorities'
          /\ authorities'[a].institution_name = authorities[a].institution_name
          /\ authorities'[a].public_key = authorities[a].public_key
          /\ is_valid_authority(Ledger', a)]_vars

C22_Witness ==
    /\ Cardinality(DOMAIN authorities) = 2
    /\ Len(chain) = 3
    /\ \A a \in DOMAIN authorities : is_valid_authority(Ledger, a)
    /\ \E a \in DOMAIN authorities : authorities[a].registered_date < chain[2].timestamp

\* C23: register_institution fails with the duplicate error exactly when the
\* authority_id is already a registered authority, a failed call leaves the
\* registry and the wallets as they were, and a successful call registers
\* the authority with the public key of the wallet stored under that id.
C23_RegisterInstitution ==
    [][last'.op = "register_institution" =>
        IF last'.authority_id \in DOMAIN authorities
        THEN /\ last'.ret = [success |-> FALSE, error |-> "Institution ID already exists"]
             /\ authorities' = authorities
             /\ wallets' = wallets
        ELSE /\ last'.ret.success
             /\ is_valid_authority(Ledger', last'.authority_id)
             /\ last'.authority_id \in DOMAIN wallets'
             /\ authorities'[last'.authority_id].public_key
                    = wallets'[last'.authority_id].key]_vars

---------------------------------------------------------------------------
(* Claims on tamper detection *)

\* C24: from a valid chain, changing the payload of one block at position
\* i >= 1 with its stored hash left as it is makes is_chain_valid false, and
\* block i is the first block at which the scan finds a violation; a change
\* of the first block's payload alone is not examined and the chain still
\* validates.
C24_TamperDetected ==
    [][last'.op = "tamper" =>
        IF last'.position >= 1
        THEN /\ last'.ret = FALSE
             /\ ~is_chain_valid(Ledger')
             /\ first_invalid(Ledger', 2) = last'.position + 1
        ELSE /\ last'.ret = TRUE
             /\ chain'[1].hash # calculate_hash(chain'[1])
             /\ is_chain_valid(Ledger')]_vars

C24_Witness ==
    /\ last.op = "tamper"
    /\ last.position = 1
    /\ Len(chain) = 3
    /\ chain[2].hash # calculate_hash(chain[2])
    /\ chain[3].hash = calculate_hash(chain[3])
    /\ last.ret = FALSE

---------------------------------------------------------------------------
(* Claims on the content hash *)

ContentFields == {"student_name", "student_id", "degree", "institution", "issue_date"}

ContentOf(r) == [f \in ContentFields |-> IF f \in DOMAIN r THEN r[f] ELSE None]

CertificateRecords(L) == {r \in AllRecords(L) : r.type = "certificate"}

\* C25: every certificate-kind record in the pool or in a sealed block has a
\* cert_hash that is the hash of its own five content fields, also when the
\* submitted record carried another cert_hash, and two records with equal
\* content fields have equal cert_hash.
C25_HashDerived ==
    /\ \A r \in CertificateRecords(Ledger) : r.cert_hash = sha256(ContentOf(r))
    /\ \A r1, r2 \in CertificateRecords(Ledger) :
          ContentOf(r1) = ContentOf(r2) => r1.cert_hash = r2.cert_hash

C25_Witness ==
    /\ last.op = "add_certificate"
    /\ last.ret = TRUE
    /\ "cert_hash" \in DOMAIN last.certificate_data
    /\ \E i \in 1..Len(chain) : \E r1 \in BlockRecords(chain[i]) :
          /\ r1.type = "certificate"
          /\ "cert_hash" \in DOMAIN r1
          /\ \E j \in 1..Len(pending_certificates) :
                LET r2 == pending_certificates[j]
                IN  /\ ContentOf(r2) = ContentOf(r1)
                    /\ ContentOf(r2) = ContentOf(last.certificate_data)
                    /\ r2.submission_time # r1.submission_time
                    /\ r2.cert_hash # last.certificate_data.cert_hash
                    /\ r2.cert_hash = r1.cert_hash

IssuedBefore(c, student_data) ==
    {i \in 1..Len(c) : \E r \in BlockRecords(c[i]) :
                          r.type = "certificate" /\ ContentOf(r) = ContentOf(student_data)}

IndexEntries(L, h) == {k \in DOMAIN L.db_certificates : L.db_certificates[k].cert_hash = h}

\* C26: issuing the same five content fields again, the certificate not
\* revoked, returns the content hash of the earlier issue, leaves two sealed
\* records in two blocks, and leaves one index entry for the hash, whose
\* containing block index is that of the block sealed last.
C26_IssueTwice ==
    [][(/\ last'.op = "issue_certificate"
        /\ last'.ret.success
        /\ IssuedBefore(chain, last'.student_data) # {}
        /\ \A i \in IssuedBefore(chain, last'.student_data) :
              \A r \in BlockRecords(chain[i]) :
                 r.cert_hash \in DOMAIN db_certificates
                 /\ db_certificates[r.cert_hash].status = "valid")
       => LET h == last'.ret.certificate_hash
          IN  /\ \A i \in IssuedBefore(chain, last'.student_data) :
                    SealedAsCertificate(chain[i], h)
              /\ Len(chain') = Len(chain) + 1
              /\ CertificateBlocks(chain', h)
                    = IssuedBefore(chain, last'.student_data) \cup {Len(chain')}
              /\ IndexEntries(Ledger', h) = {h}
              /\ db_certificates'[h].block_index = chain'[Len(chain')].block_index
              /\ db_certificates'[h].status = "valid"]_vars

C26_Witness ==
    /\ last.op = "issue_certificate"
    /\ last.ret.success
    /\ Len(chain) = 3
    /\ CertificateBlocks(chain, last.ret.certificate_hash) = {2, 3}
    /\ IndexEntries(Ledger, last.ret.certificate_hash) = {last.ret.certificate_hash}
    /\ db_certificates[last.ret.certificate_hash].block_index = 2
    /\ \E r \in BlockRecords(chain[2]) : r.validator # last.authority_id

---------------------------------------------------------------------------
(* Claims on the durable store *)

GenesisBlocks(c) == {i \in 1..Len(c) : "type" \in DOMAIN c[i].data /\ c[i].data.type = "genesis"}

\* C27: constructing the ledger again from the durable store, after any
\* sequence of completed operations, yields the same blocks with the same
\* hashes in the same order and the same authority registry, adds no second
\* genesis block to a persisted chain, and is_chain_valid is still true.
C27_RestartPreserves ==
    [][last'.op = "restart" =>
        /\ chain' = chain
        /\ authorities' = authorities
        /\ GenesisBlocks(chain') = {1}
        /\ UNCHANGED <<db_blocks, db_certificates, db_authorities>>
        /\ is_chain_valid(Ledger')]_vars

C27_Witness ==
    /\ last.op = "restart"
    /\ Len(chain) = 3
    /\ Cardinality(DOMAIN authorities) = 2
    /\ \E h \in DOMAIN db_certificates : db_certificates[h].status = "revoked"
    /\ pending_certificates = <<>>
    /\ is_chain_valid(Ledger)

---------------------------------------------------------------------------
(* Claims on signatures *)

\* C28: verifying a record against the signature that a wallet made over it,
\* with the public key of that wallet, gives true; with the public key of
\* another key pair, or with a record in which a field was changed, it gives
\* false; for a malformed signature it returns false.
C28_SignatureRoundTrip ==
    last.op = "verify_signature" =>
        IF last.signed = <<>>
        THEN last.ret = FALSE
        ELSE LET signer == wallets[last.signed[1].wallet_id].key
                 used == IF last.public_key_pem # None
                         THEN last.public_key_pem
                         ELSE wallets[last.wallet_id].key
             IN  last.ret = (/\ used = signer
                             /\ last.certificate_data = last.signed[1].certificate_data)

C28_Witness ==
    /\ last.op = "verify_signature"
    /\ last.signed # <<>>
    /\ last.wallet_id # last.signed[1].wallet_id
    /\ last.public_key_pem = wallets[last.signed[1].wallet_id].key
    /\ last.certificate_data = TestCert
    /\ last.ret = TRUE

\* C29: validate_certificate_integrity reports overall_valid true exactly
\* when the embedded signature verifies against the embedded public key over
\* the payload without these two fields and the payload's cert_hash is in
\* the ledger index; the two checks are reported separately.
C29_IntegrityIsBothChecks ==
    last.op = "validate_certificate_integrity" =>
        LET c == last.certificate
            signed == /\ "signature" \in DOMAIN c
                      /\ "public_key" \in DOMAIN c
                      /\ \E k \in Keys :
                            /\ c.public_key = k
                            /\ c.signature = sign_certificate([key |-> k],
                                                 Without(c, {"signature", "public_key"}))
            indexed == /\ "cert_hash" \in DOMAIN c
                       /\ c.cert_hash \in DOMAIN db_certificates
        IN  /\ last.ret.success
            /\ last.ret.signature_valid = signed
            /\ last.ret.blockchain_valid = indexed
            /\ last.ret.overall_valid = (signed /\ indexed)

C29_Witness ==
    /\ last.op = "validate_certificate_integrity"
    /\ last.ret.overall_valid
    /\ last.ret.signature_valid
    /\ last.ret.blockchain_valid
    /\ last.certificate.cert_hash \in DOMAIN db_certificates

---------------------------------------------------------------------------
(* Claims on the search *)

SealedCertificates(c) ==
    {r \in UNION {BlockRecords(c[i]) : i \in 1..Len(c)} : r.type = "certificate"}

Returned(views) == {views[k].cert_hash : k \in 1..Len(views)}

\* C30: search returns a view for a sealed certificate-kind record exactly
\* when, for every field given in the criteria, the record has that field
\* and its value equals the criterion ignoring case; a record that is only
\* pending is not returned; each view carries the current index status.
C30_SearchMatchesAllFields ==
    last.op = "search_certificates" =>
        /\ \A r \in SealedCertificates(chain) :
              (r.cert_hash \in Returned(last.ret))
                 <=> (\A key \in DOMAIN last.search_criteria :
                         /\ key \in DOMAIN r
                         /\ lower(r[key]) = lower(last.search_criteria[key]))
        /\ \A h \in Returned(last.ret) :
              \E r \in SealedCertificates(chain) : r.cert_hash = h
        /\ \A k \in 1..Len(last.ret) :
              last.ret[k].status = db_certificates[last.ret[k].cert_hash].status

---------------------------------------------------------------------------
(* Claims on the reports *)

SealedBy(c, a) ==
    UNION {{<<i, j>> : j \in {k \in 1..Len(c[i].data.certificates) :
                                  c[i].data.certificates[k].type = "certificate"}} :
           i \in {n \in 1..Len(c) : /\ c[n].validator = a
                                     /\ "certificates" \in DOMAIN c[n].data}}

\* C31: for an active authority the statistics report as total the number
\* of certificate-kind records in the blocks sealed by that authority, as
\* revoked the number of those whose hash has index status revoked, as
\* active the difference, and a recent list of at most 10 entries;
\* revocation-kind records and blocks sealed by others are not counted.
C31_InstitutionStatistics ==
    (last.op = "get_institution_statistics" /\ is_valid_authority(Ledger, last.authority_id))
    => LET own == SealedBy(chain, last.authority_id)
           gone == {p \in own :
                      LET h == chain[p[1]].data.certificates[p[2]].cert_hash
                      IN  h \in DOMAIN db_certificates
                          /\ db_certificates[h].status = "revoked"}
           stats == last.ret.statistics
       IN  /\ last.ret.success
           /\ stats.total_certificates = Cardinality(own)
           /\ stats.revoked_certificates = Cardinality(gone)
           /\ stats.active_certificates = Cardinality(own) - Cardinality(gone)
           /\ Len(stats.recent_certificates) <= 10

C31_Witness ==
    /\ last.op = "get_institution_statistics"
    /\ last.ret.success
    /\ last.ret.statistics.total_certificates = 12
    /\ last.ret.statistics.revoked_certificates = 11
    /\ last.ret.statistics.active_certificates = 1
    /\ Len(last.ret.statistics.recent_certificates) = 10
    /\ \E i \in 1..Len(chain) :
          /\ chain[i].validator = last.authority_id
          /\ \E r \in BlockRecords(chain[i]) : r.type = "revocation"

SealStep ==
    \/ last'.op = "mine_pending_certificates" /\ last'.ret # <<>>
    \/ last'.op = "revoke_certificate" /\ last'.ret = TRUE

\* C32: in every reachable state get_chain_info reports as blocks one more
\* than the number of successful seals (the count is 1 at the start and
\* grows by one with each step that seals), as certificates the number of
\* accepted certificate submissions that are sealed, as revocations the
\* number of accepted revocations, as authorities the size of the registry,
\* and as latest hash the stored hash of the last block.
C32_ChainSummary ==
    /\ get_chain_info(Ledger).total_blocks = 1
    /\ [](LET info == get_chain_info(Ledger)
              sealed == UNION {BlockRecords(chain[i]) : i \in 1..Len(chain)}
          IN  /\ info.total_certificates
                    = Cardinality({r \in accepted : r.type = "certificate" /\ r \in sealed})
              /\ info.total_revocations
                    = Cardinality({r \in accepted : r.type = "revocation"})
              /\ info.total_authorities = Cardinality(DOMAIN authorities)
              /\ info.latest_block_hash = <<chain[Len(chain)].hash>>)
    /\ [][get_chain_info(Ledger').total_blocks
             = get_chain_info(Ledger).total_blocks + (IF SealStep THEN 1 ELSE 0)]_vars

C32_Witness ==
    LET info == get_chain_info(Ledger)
    IN  /\ info.total_blocks = 3
        /\ info.total_certificates = 1
        /\ info.total_revocations = 1
        /\ info.total_authorities = 2
        /\ pending_certificates = <<>>

---------------------------------------------------------------------------
(* Claims on revocation and the index *)

ViewFields == {"student_name", "student_id", "degree", "institution", "issue_date",
               "block_index"}

\* C33: a successful revoke of hash h changes only the status of its index
\* entry: verify_certificate_by_hash(h) returns afterwards the same student
\* fields and the same containing block index as before, and the block it
\* cross-references is a block whose payload holds the certificate-kind
\* record for h.
C33_RevokeChangesOnlyStatus ==
    [][(last'.op = "issuer_revoke_certificate" /\ last'.ret.success)
       => LET h == last'.cert_hash
              before == verify_certificate_by_hash(Issuer, h)
              after == verify_certificate_by_hash(Issuer', h)
          IN  /\ before.success
              /\ after.success
              /\ after.certificate.status = "revoked"
              /\ \A f \in ViewFields : after.certificate[f] = before.certificate[f]
              /\ \E i \in CertificateBlocks(chain', h) :
                    /\ after.certificate.block_hash = chain'[i].hash
                    /\ after.certificate.block_validator = chain'[i].validator]_vars

\* C34: revocation is permanent: a hash whose index status is revoked has
\* index status revoked in every later state, whatever operation follows,
\* issuing the same five content fields again included.
C34_RevocationPermanent ==
    [][\A h \in DOMAIN db_certificates :
          db_certificates[h].status = "revoked"
          => /\ h \in DOMAIN db_certificates'
             /\ db_certificates'[h].status = "revoked"]_vars

---------------------------------------------------------------------------
(* Claims on the integrity check of issued and forged certificates *)

IssuedCertificates ==
    {r \in SealedCertificates(chain) : "certificate_id" \in DOMAIN r /\ "signature" \in DOMAIN r}

\* C35: the certificate payload returned by a successful issue_certificate,
\* not revoked and not modified, passes validate_certificate_integrity with
\* signature_valid, blockchain_valid and overall_valid all true.
C35_IssuedPassesIntegrity ==
    (/\ last.op = "validate_certificate_integrity"
     /\ last.certificate \in IssuedCertificates
     /\ db_certificates[last.certificate.cert_hash].status = "valid")
    => /\ last.ret.success
       /\ last.ret.signature_valid
       /\ last.ret.blockchain_valid
       /\ last.ret.overall_valid

\* C36: validate_certificate_integrity reports overall_valid true only for
\* a payload whose own five content fields hash to a hash in the ledger
\* index; a payload whose content matches no sealed certificate, with a
\* self-made signature and key and the cert_hash of a sealed certificate,
\* gets overall_valid false.
C36_ForgedPayloadRejected ==
    (last.op = "validate_certificate_integrity" /\ last.ret.overall_valid)
    => sha256(ContentOf(last.certificate)) \in DOMAIN db_certificates

---------------------------------------------------------------------------
(* Claims on concurrent issue_certificate calls *)

\* C37: under every interleaving of concurrent issue_certificate calls, a
\* call that returns success also returns a block_index and a
\* transaction_id that are not null, and they identify a block whose
\* payload contains the certificate that this call issued.
C37_IssueReturnsItsBlock ==
    (last.op = "issue_certificate" /\ last.ret.success)
    => /\ last.ret.block_index # <<>>
       /\ last.ret.transaction_id # <<>>
       /\ \E i \in 1..Len(chain) :
             /\ chain[i].block_index = last.ret.block_index[1]
             /\ chain[i].hash = last.ret.transaction_id[1]
             /\ last.ret.certificate \in BlockRecords(chain[i])

---------------------------------------------------------------------------
(* Claims on the issuer as the only caller of the ledger *)

\* C38: when the ledger is driven only through the issuer, sequentially,
\* the pending pool is empty after every completed operation, successful or
\* failed, and every record accepted by an operation is sealed by that
\* operation, in the block it appends.
C38_PoolEmptyAfterIssuerCalls ==
    /\ [](pending_certificates = <<>>)
    /\ [][\A r \in accepted' \ accepted :
             /\ Len(chain') = Len(chain) + 1
             /\ r \in BlockRecords(chain'[Len(chain')])]_vars

C38_Witness ==
    /\ last.op = "issuer_revoke_certificate"
    /\ last.ret.success
    /\ pending_certificates = <<>>
    /\ Len(chain) = 3
    /\ Cardinality(accepted) = 2
    /\ \E r \in BlockRecords(chain[3]) : r.type = "revocation"

---------------------------------------------------------------------------
(* Claims on tampering with a rewritten hash *)

\* C39: from a valid chain, changing the payload of one block at position
\* i >= 1 and replacing its stored hash with the hash recomputed over the
\* changed fields makes is_chain_valid false, for every i, the last block
\* included.
C39_RehashDetected ==
    [][(last'.op = "tamper_rehash" /\ last'.position >= 1)
       => /\ last'.ret = FALSE
          /\ ~is_chain_valid(Ledger')]_vars

====
